---- MODULE Spec2Model ----
(***************************************************************************)
(* A model of clean.py, the cleaner of the Enron and Seattle e-mail        *)
(* metadata sets: identity cleaning, recipient splitting, timestamp         *)
(* parsing, the validity filter, factorisation, the per-user indexes, the   *)
(* file-cached pipeline of process() and the percentile filter.             *)
(*                                                                          *)
(* A Python str is a sequence of one-character strings; a value that is not *)
(* a str (the float NaN pandas gives an empty CSV cell) is NaN.             *)
(***************************************************************************)
EXTENDS Integers, Sequences, FiniteSets, TLC

VARIABLES
    input,      \* the arguments of the function being called
    output,     \* what the call returned (fn = "none" before the call)
    files,      \* the data directory of process(): file name -> content
    pc,         \* where the running process() stands ("idle": none running)
    mem,        \* the locals of the running process(): clean_df, user_key
    pre,        \* the data directory as the current/last run found it
    written,    \* the files the current/last run has written
    finished    \* TRUE once the last run returned normally

vars == <<input, output, files, pc, mem, pre, written, finished>>

----------------------------------------------------------------------------
(* Bounds of the model.                                                     *)

MaxLen == 3         \* longest enumerated identity string
MaxRows == 2        \* most rows of a raw table
MaxEvents == 3      \* most events given to senders() / receivers()
NumCodes == 2       \* identity codes 0 .. NumCodes-1 given to senders()
MaxSubmit == 1      \* submit times 0 .. MaxSubmit given to senders()
MaxUsers == 3       \* most users given to active_users()
MaxCount == 3       \* largest enumerated message count

----------------------------------------------------------------------------
(* Python values.                                                           *)

NaN == <<"float('nan')">>

IsStr(s) == s # NaN

Range(s) == {s[i] : i \in DOMAIN s}

\* s.replace(c, "") for a one-character c
Replace(s, c) == SelectSeq(s, LAMBDA x : x # c)

\* the index of the first c in s, 0 when there is none
RECURSIVE Find(_, _, _)
Find(s, c, i) ==
    IF i > Len(s) THEN 0
    ELSE IF s[i] = c THEN i
    ELSE Find(s, c, i + 1)

\* s.split(c) for a one-character c
RECURSIVE Split(_, _)
Split(s, c) ==
    LET k == Find(s, c, 1)
    IN  IF k = 0 THEN <<s>>
        ELSE <<SubSeq(s, 1, k - 1)>> \o Split(SubSeq(s, k + 1, Len(s)), c)

LowerChar(c) ==
    CASE c = "N" -> "n"
      [] c = "A" -> "a"
      [] c = "B" -> "b"
      [] c = "C" -> "c"
      [] c = "X" -> "x"
      [] OTHER -> c

\* s.lower()
Lower(s) == [i \in DOMAIN s |-> LowerChar(s[i])]

nan == <<"n", "a", "n">>

----------------------------------------------------------------------------
(* Identity cleaning.                                                       *)

\* clean_enron without line 49: spaces stay
clean_enron_keeps_space(s) ==
    IF IsStr(s)
    THEN Replace(Replace(Replace(Replace(s, "["), "]"), "'"), "\"")
    ELSE <<>>

clean_enron(s) ==
    IF IsStr(s)
    THEN Replace(Replace(Replace(Replace(Replace(s, "["), "]"), "'"), "\""), " ")
    ELSE <<>>

clean_seattle(s) ==
    IF IsStr(s)
    THEN Replace(Replace(Replace(Split(Split(s, "<")[1], "(")[1], "\""), "'"), " ")
    ELSE <<>>

\* clean_fn(s), the function being passed by name
Apply(clean_fn, s) ==
    IF clean_fn = "clean_enron" THEN clean_enron(s) ELSE clean_seattle(s)

----------------------------------------------------------------------------
(* Recipient splitting and timestamp parsing.                               *)

\* clean_multiple without the test of line 85
clean_multiple_keeps_all(s, clean_fn, delimiter, single_senders) ==
    IF IsStr(s)
    THEN LET r == Split(s, delimiter)
         IN  [i \in DOMAIN r |-> Apply(clean_fn, r[i])]
    ELSE <<>>

clean_multiple(s, clean_fn, delimiter, single_senders) ==
    IF IsStr(s)
    THEN LET r == Split(s, delimiter)
             c == [i \in DOMAIN r |-> Apply(clean_fn, r[i])]
         IN  IF single_senders /\ Len(c) # 1 THEN <<>> ELSE c
    ELSE <<>>

Digits == <<"0", "1", "2", "3", "4", "5", "6", "7", "8", "9">>

IsDigit(c) == \E i \in DOMAIN Digits : Digits[i] = c

DigitVal(c) == (CHOOSE i \in DOMAIN Digits : Digits[i] = c) - 1

\* The calendar is scaled: a date is one digit (the day), a time is one digit
\* (the second of the day, below DayLen) with an optional ".5".
DayLen == 2

\* ciso8601.parse_datetime(iso) followed by dt.timestamp(): the timestamp in
\* half seconds, or -1 where parse_datetime raises ValueError.
parse_datetime(iso) ==
    IF /\ Len(iso) \in {3, 5}
       /\ IsDigit(iso[1])
       /\ iso[2] = "T"
       /\ IsDigit(iso[3])
       /\ DigitVal(iso[3]) < DayLen
       /\ Len(iso) = 5 => (iso[4] = "." /\ iso[5] = "5")
    THEN 2 * (DayLen * DigitVal(iso[1]) + DigitVal(iso[3]))
            + (IF Len(iso) = 5 THEN 1 ELSE 0)
    ELSE -1

\* int(np.round(x)) of x = halves/2 >= 0: to the nearest, a tie to the even one
np_round(halves) ==
    LET q == halves \div 2
    IN  IF halves % 2 = 0 THEN q
        ELSE IF q % 2 = 0 THEN q ELSE q + 1

convert_time(s) ==
    IF ~IsStr(s) THEN -1                      \* AttributeError, caught
    ELSE LET toks == Split(s, " ")
         IN  IF Len(toks) # 2 THEN -1         \* ValueError on unpacking, caught
             ELSE LET iso == toks[1] \o <<"T">> \o toks[2]
                      ts == parse_datetime(iso)
                  IN  IF ts = -1 THEN -1      \* ValueError of the parser, caught
                      ELSE np_round(ts)

----------------------------------------------------------------------------
(* clean(): expansion, the validity filter, factorisation, the sort.        *)

RECURSIVE Flatten(_)
Flatten(ss) == IF ss = <<>> THEN <<>> ELSE Head(ss) \o Flatten(Tail(ss))

\* one row per receiver of the row, the other fields repeated
expand(row) ==
    [i \in 1 .. Len(row.receiver) |-> [row EXCEPT !.receiver = row.receiver[i]]]

valid_name(x) == x # <<>> /\ Lower(x) # nan

no_copy(x) == ~IsStr(x) \/ Lower(x) = nan

\* correct without bcc_correct (line 130)
correct_ignores_bcc(df, single_senders) ==
    SelectSeq(df, LAMBDA x :
        /\ valid_name(x.sender)
        /\ valid_name(x.receiver)
        /\ single_senders => no_copy(x.cc))

correct(df, single_senders) ==
    SelectSeq(df, LAMBDA x :
        /\ valid_name(x.sender)
        /\ valid_name(x.receiver)
        /\ single_senders => (no_copy(x.cc) /\ no_copy(x.bcc)))

\* the predicate of line 152 without its upper limit
in_range_open_end(x, start, end) == start <= x

\* the predicate of line 152
in_range(x, start, end) == start <= x /\ x <= end

\* df[["sender", "receiver"]].stack(): row by row, sender then receiver
stack(df) == Flatten([i \in DOMAIN df |-> <<df[i].sender, df[i].receiver>>])

\* the distinct values of s in the order of their first appearance
RECURSIVE Uniques(_)
Uniques(s) ==
    IF s = <<>> THEN <<>>
    ELSE LET u == Uniques(SubSeq(s, 1, Len(s) - 1))
             x == s[Len(s)]
         IN  IF x \in Range(u) THEN u ELSE Append(u, x)

\* a factorisation that gives every occurrence a code of its own
factorize_by_position(stacked) ==
    [codes |-> [i \in DOMAIN stacked |-> i - 1], uniques |-> stacked]

\* stacked.factorize(): the codes, and the table the codes index (from 0)
factorize(stacked) ==
    LET u == Uniques(stacked)
    IN  [codes |-> [i \in DOMAIN stacked |->
                        (CHOOSE k \in DOMAIN u : u[k] = stacked[i]) - 1],
         uniques |-> u]

\* every ordering of the rows S by ascending submit: sort_values() uses an
\* unstable sort, so rows of equal submit come out in any order
RECURSIVE SortedOrders(_)
SortedOrders(S) ==
    IF S = {} THEN {<<>>}
    ELSE LET least == {e \in S : \A f \in S : e.submit <= f.submit}
         IN  UNION {{<<e>> \o rest : rest \in SortedOrders(S \ {e})} : e \in least}

\* the rows that pass the filters, before factorisation (lines 142-152); idx is
\* the label the data frame built on line 149 gives each expanded row
surviving(df, start, end, clean_fn, delimiter, single_senders) ==
    LET cleaned == [i \in DOMAIN df |->
                      [df[i] EXCEPT
                         !.sender = Apply(clean_fn, df[i].sender),
                         !.receiver = clean_multiple(df[i].receiver, clean_fn,
                                                     delimiter, single_senders)]]
        m == Flatten([i \in DOMAIN cleaned |-> expand(cleaned[i])])
        frame == [i \in DOMAIN m |->
                    [idx |-> i - 1, sender |-> m[i].sender,
                     receiver |-> m[i].receiver, submit |-> m[i].submit,
                     cc |-> m[i].cc, bcc |-> m[i].bcc]]
        ok == correct(frame, single_senders)
        timed == [i \in DOMAIN ok |->
                    [ok[i] EXCEPT !.submit = convert_time(ok[i].submit)]]
    IN  SelectSeq(timed, LAMBDA x : in_range(x.submit, start, end))

Raised == [raised |-> TRUE, df |-> <<>>, user_key |-> <<>>]

\* clean(): the set of its possible outcomes. np.concatenate raises on a table
\* without rows; with no surviving row the pandas calls of lines 152-156 raise
\* or return an empty frame, depending on the pandas version.
clean(df, start, end, clean_fn, delimiter, single_senders) ==
    IF df = <<>> THEN {Raised}
    ELSE LET kept == surviving(df, start, end, clean_fn, delimiter, single_senders)
             f == factorize(stack(kept))
             coded == {[idx |-> kept[i].idx,
                        sender |-> f.codes[2 * i - 1],
                        receiver |-> f.codes[2 * i],
                        submit |-> kept[i].submit] : i \in DOMAIN kept}
         IN  {[raised |-> FALSE, df |-> o, user_key |-> f.uniques] :
                 o \in SortedOrders(coded)}
             \cup (IF kept = <<>> THEN {Raised} ELSE {})

----------------------------------------------------------------------------
(* senders() and receivers(): the per-user indexes. An event of the clean   *)
(* matrix is <<sender, receiver, submit>>: column c of the code is          *)
(* component c + 1 here.                                                    *)

Column(df, c) == [i \in DOMAIN df |-> df[i][c]]

\* the positions of S ordered by (primary key, secondary key, position)
RECURSIVE OrderBy(_, _, _)
OrderBy(S, secondary, primary) ==
    IF S = {} THEN <<>>
    ELSE LET first == CHOOSE i \in S : \A j \in S \ {i} :
                          \/ primary[i] < primary[j]
                          \/ /\ primary[i] = primary[j]
                             /\ secondary[i] < secondary[j]
                          \/ /\ primary[i] = primary[j]
                             /\ secondary[i] = secondary[j]
                             /\ i < j
         IN  <<first>> \o OrderBy(S \ {first}, secondary, primary)

RECURSIVE OrderByLast(_, _, _)
OrderByLast(S, secondary, primary) ==
    IF S = {} THEN <<>>
    ELSE LET first == CHOOSE i \in S : \A j \in S \ {i} :
                          \/ primary[i] < primary[j]
                          \/ /\ primary[i] = primary[j]
                             /\ secondary[i] < secondary[j]
                          \/ /\ primary[i] = primary[j]
                             /\ secondary[i] = secondary[j]
                             /\ i > j
         IN  <<first>> \o OrderByLast(S \ {first}, secondary, primary)

\* a sort by the same keys that reverses equal rows
lexsort_unstable(secondary, primary) ==
    OrderByLast(DOMAIN primary, secondary, primary)

\* np.lexsort((secondary, primary)): a stable indirect sort, last key first
lexsort(secondary, primary) == OrderBy(DOMAIN primary, secondary, primary)

\* np.unique(a): the distinct values, ascending
RECURSIVE Ascending(_)
Ascending(S) ==
    IF S = {} THEN <<>>
    ELSE LET least == CHOOSE x \in S : \A y \in S : x <= y
         IN  <<least>> \o Ascending(S \ {least})

np_unique(a) == Ascending(Range(a))

\* the while loop of lines 184-185: positions count from 0 as in the code
RECURSIVE scan(_, _, _, _)
scan(df, key, start, end) ==
    IF end < Len(df) /\ df[start + 1][key] = df[end + 1][key]
    THEN scan(df, key, start, end + 1)
    ELSE end

\* the for loop of lines 183-188, from iteration i on: the slices start:end
RECURSIVE slices(_, _, _, _, _)
slices(df, key, n, i, start) ==
    IF i = n THEN <<>>
    ELSE LET end == scan(df, key, start, start)
         IN  <<SubSeq(df, start + 1, end)>> \o slices(df, key, n, i + 1, end)

\* the body shared by senders() and receivers(): one row per user of column
\* key, with the other column and the submits of the user's slice
index_by(df, key, other) ==
    LET order == lexsort(Column(df, 3), Column(df, key))
        sorted == [i \in DOMAIN order |-> df[order[i]]]
        users == np_unique(Column(sorted, key))
        parts == slices(sorted, key, Len(users), 0, 0)
    IN  [i \in DOMAIN users |->
            [user |-> users[i],
             others |-> Column(parts[i], other),
             submits |-> Column(parts[i], 3)]]

senders(df) == index_by(df, 1, 2)

receivers(df) == index_by(df, 2, 1)

----------------------------------------------------------------------------
(* active_users(): the percentile filter.                                   *)

\* 100 * np.percentile(a, q) for a non-empty a and 0 <= q <= 100: the value at
\* the position q/100 * (n-1) of the sorted a, interpolated linearly between
\* the two neighbours (kept exact by the factor 100)
percentile100(a, q) ==
    LET order == lexsort(a, a)
        sorted == [i \in DOMAIN order |-> a[order[i]]]
        lo == (q * (Len(a) - 1)) \div 100
        r == (q * (Len(a) - 1)) % 100
    IN  IF r = 0 THEN 100 * sorted[lo + 1]
        ELSE 100 * sorted[lo + 1] + r * (sorted[lo + 2] - sorted[lo + 1])

\* active_users with lens < max on line 275
active_users_below_max(df, min_percentile, max_percentile) ==
    LET lens == [i \in DOMAIN df |-> Len(df[i].submits)]
        min == percentile100(lens, min_percentile)
        max == percentile100(lens, max_percentile)
    IN  SelectSeq(df, LAMBDA u :
            100 * Len(u.submits) >= min /\ 100 * Len(u.submits) < max)

active_users(df, min_percentile, max_percentile) ==
    LET lens == [i \in DOMAIN df |-> Len(df[i].submits)]
        min == percentile100(lens, min_percentile)
        max == percentile100(lens, max_percentile)
    IN  SelectSeq(df, LAMBDA u :
            100 * Len(u.submits) >= min /\ 100 * Len(u.submits) <= max)

----------------------------------------------------------------------------
(* The calls of the pure functions: input holds the arguments, output the   *)
(* result. The variables of process() stay at rest meanwhile.               *)

NotRun == [fn |-> "none"]

Absent == [kind |-> "absent", data |-> <<>>]

FileNames ==
    {"raw.zip", "raw.csv", "clean", "users", "senders_processed",
     "receivers_processed"}

NoFiles == [f \in FileNames |-> Absent]

NoLocals == [clean_df |-> <<>>, user_key |-> <<>>]

AtRest ==
    /\ files = NoFiles
    /\ pc = "idle"
    /\ mem = NoLocals
    /\ pre = NoFiles
    /\ written = {}
    /\ finished = FALSE

process_vars == <<files, pc, mem, pre, written, finished>>

IdChars == {"[", "]", "'", "\"", " ", "<", "(", ".", "a"}

StringsUpTo(chars, n) == UNION {[1 .. k -> chars] : k \in 0 .. n}

JaneBracketed == <<"[", "J", "a", "n", "e", ".", "D", "o", "e", "]">>

JaneSeattle ==
    <<"j", "a", "n", "e", "@", "x", ".", "c", "o", "m", " ",
      "<", "J", "a", "n", "e", " ", "D", "o", "e", ">">>

InitIdentity ==
    /\ input \in {[fn |-> "identity", s |-> s] :
                    s \in StringsUpTo(IdChars, MaxLen)
                          \cup {NaN, JaneBracketed, JaneSeattle}}
    /\ output = NotRun
    /\ AtRest

CallCleanEnron ==
    /\ input.fn = "identity"
    /\ output.fn = "none"
    /\ output' = [fn |-> "clean_enron", v |-> clean_enron(input.s)]
    /\ UNCHANGED <<input, process_vars>>

CallCleanSeattle ==
    /\ input.fn = "identity"
    /\ output.fn = "none"
    /\ output' = [fn |-> "clean_seattle", v |-> clean_seattle(input.s)]
    /\ UNCHANGED <<input, process_vars>>

NextIdentity == CallCleanEnron \/ CallCleanSeattle

SpecIdentity == InitIdentity /\ [][NextIdentity]_vars

EnronDropped == {"[", "]", "'", "\"", " "}

SeattleDropped == {"\"", "'", " "}

\* s up to, and without, its first "<" or "("
BeforeMarker(s) ==
    LET at == {i \in DOMAIN s : s[i] \in {"<", "("}}
    IN  IF at = {} THEN s
        ELSE SubSeq(s, 1, (CHOOSE i \in at : \A j \in at : i <= j) - 1)

\* C9, as amended: clean_enron removes exactly the characters [ ] ' " and the
\* space and keeps every other character in place, so "[Jane.Doe]" cleans to
\* "Jane.Doe" (the dot stays); clean_seattle cuts the string at its first "<" or
\* "(" and then removes exactly the quotes and spaces, so
\* "jane@x.com <Jane Doe>" cleans to "jane@x.com"; a value that is not a string
\* cleans to the empty string under both rules.
C9_CleaningRemovesExactly ==
    /\ output.fn = "clean_enron" =>
          /\ IsStr(input.s) =>
                output.v = SelectSeq(input.s, LAMBDA c : c \notin EnronDropped)
          /\ ~IsStr(input.s) => output.v = <<>>
          /\ input.s = JaneBracketed =>
                output.v = <<"J", "a", "n", "e", ".", "D", "o", "e">>
    /\ output.fn = "clean_seattle" =>
          /\ IsStr(input.s) =>
                output.v = SelectSeq(BeforeMarker(input.s),
                                     LAMBDA c : c \notin SeattleDropped)
          /\ ~IsStr(input.s) => output.v = <<>>
          /\ input.s = JaneSeattle =>
                output.v = <<"j", "a", "n", "e", "@", "x", ".", "c", "o", "m">>

C9_Witness ==
    /\ output.fn = "clean_enron"
    /\ input.s = JaneBracketed
    /\ output.v = <<"J", "a", "n", "e", ".", "D", "o", "e">>

\* C9 as stated: under the Enron rule "[Jane.Doe]" cleans to "JaneDoe".
C9_AsStated ==
    (output.fn = "clean_enron" /\ input.s = JaneBracketed) =>
        output.v = <<"J", "a", "n", "e", "D", "o", "e">>

----------------------------------------------------------------------------
(* The calls of clean().                                                    *)

\* The two configurations main() passes to process() (lines 293-311), with the
\* epoch ranges scaled to the calendar above: Enron's range lies before
\* Seattle's, and neither reaches below 0.
enron ==
    [start |-> 1, end |-> 2, clean_fn |-> "clean_enron", delimiter |-> ","]

seattle ==
    [start |-> 3, end |-> 4, clean_fn |-> "clean_seattle", delimiter |-> ";"]

Datasets == {enron, seattle}

\* what main() passes for a dataset ds (lines 305-311)
dataset_range(ds) == <<ds.start, ds.end>>

RawRow(s, r, t, c, b) ==
    [sender |-> s, receiver |-> r, submit |-> t, cc |-> c, bcc |-> b]

\* a timestamp inside the range of ds
InRangeTime(ds) ==
    IF ds = enron THEN <<"1", " ", "0">> ELSE <<"1", " ", "1", ".", "5">>

\* The rows of the raw tables: one or two recipients with a timestamp in
\* Enron's range or in Seattle's range, with cc and bcc absent or one of them
\* present; and the rows that differ in one field from a valid point-to-point
\* row.
RawRows(ds) ==
    LET d == ds.delimiter
        one == <<"B">>
        two == <<"B", d, " ", "A">>
    IN  {RawRow(<<"A">>, one, t, cb[1], cb[2]) :
            t \in {<<"1", " ", "0">>, <<"1", " ", "1", ".", "5">>},
            cb \in {<<NaN, NaN>>, <<<<"X">>, NaN>>, <<NaN, <<"X">>>>}}
        \cup {RawRow(<<"A">>, two, t, NaN, NaN) :
                t \in {<<"1", " ", "0">>, <<"1", " ", "1", ".", "5">>}}
        \cup {RawRow(<<"A">>, two, InRangeTime(ds), <<"X">>, NaN)}
        \cup {RawRow(s, one, InRangeTime(ds), NaN, NaN) :
                s \in {NaN, <<"N", "a", "n">>}}
        \cup {RawRow(<<"A">>, r, InRangeTime(ds), NaN, NaN) :
                r \in {NaN, <<"B", d>>, <<"N", "A", "N">>}}
        \cup {RawRow(<<"A">>, one, x, NaN, NaN) :
                x \in {NaN, <<"1">>, <<"1", " ", "0", " ">>}}
        \cup {RawRow(<<"A">>, one, InRangeTime(ds), <<"N", "a", "N">>, NaN),
              RawRow(<<"A">>, one, InRangeTime(ds), NaN, <<"n", "a", "n">>)}

TablesUpTo(rows, n) == UNION {[1 .. k -> rows] : k \in 0 .. n}

InitClean ==
    /\ \E ds \in Datasets, single \in BOOLEAN :
         \E df \in TablesUpTo(RawRows(ds), MaxRows) :
            input = [fn |-> "clean", df |-> df, ds |-> ds,
                     start |-> dataset_range(ds)[1], end |-> dataset_range(ds)[2],
                     single_senders |-> single]
    /\ output = NotRun
    /\ AtRest

CallClean ==
    /\ input.fn = "clean"
    /\ output.fn = "none"
    /\ \E o \in clean(input.df, input.start, input.end, input.ds.clean_fn,
                      input.ds.delimiter, input.single_senders) :
          output' = [fn |-> "clean", raised |-> o.raised, df |-> o.df,
                     user_key |-> o.user_key]
    /\ UNCHANGED <<input, process_vars>>

NextClean == CallClean

SpecClean == InitClean /\ [][NextClean]_vars

\* the cleaned recipients of a raw row, whatever the mode
RecipientsOf(row) ==
    IF IsStr(row.receiver)
    THEN LET r == Split(row.receiver, input.ds.delimiter)
         IN  [k \in DOMAIN r |-> Apply(input.ds.clean_fn, r[k])]
    ELSE <<>>

\* the raw row behind each label idx + 1 of the expanded frame (line 148 lays
\* the expansions of the rows out one after the other)
Origin ==
    Flatten([i \in DOMAIN input.df |->
        [k \in 1 .. Len(clean_multiple(input.df[i].receiver, input.ds.clean_fn,
                                       input.ds.delimiter, input.single_senders))
            |-> i]])

\* the events of the output that come from raw row i, org being Origin
EventsOf(org, i) ==
    {output.df[n] : n \in {m \in DOMAIN output.df : org[output.df[m].idx + 1] = i}}

\* the cleaned string behind a code of the output
Name(code) == output.user_key[code + 1]

Unparsable(s) ==
    \/ ~IsStr(s)
    \/ Len(Split(s, " ")) # 2
    \/ parse_datetime(Split(s, " ")[1] \o <<"T">> \o Split(s, " ")[2]) = -1

InputRange(x) == input.start <= x /\ x <= input.end

\* C1: every event clean() returns has start <= submit <= end, its submit being
\* the converted timestamp of its raw row; a raw row whose timestamp does not
\* parse converts to the sentinel -1, and a row whose timestamp does not parse
\* or converts to a value outside [start, end] contributes no event.
C1_SubmitInRange ==
    output.fn = "clean" =>
        LET org == Origin IN
        /\ \A e \in Range(output.df) : InputRange(e.submit)
        /\ \A i \in DOMAIN input.df :
              LET s == input.df[i].submit
                  t == convert_time(s)
                  mine == EventsOf(org, i)
              IN  /\ \A e \in mine : e.submit = t
                  /\ Unparsable(s) => (t = -1 /\ mine = {})
                  /\ ~InputRange(t) => mine = {}

C1_Witness ==
    /\ output.fn = "clean"
    /\ Len(input.df) = 2
    /\ Unparsable(input.df[1].submit)
    /\ valid_name(Apply(input.ds.clean_fn, input.df[1].sender))
    /\ EventsOf(Origin, 1) = {}
    /\ Cardinality(EventsOf(Origin, 2)) = 2
    /\ \A e \in EventsOf(Origin, 2) : e.submit = input.end

\* a raw row with a valid sender, an in-range timestamp and a receiver field
\* that splits into recipients that all clean to valid names
WellFormed(row) ==
    /\ valid_name(Apply(input.ds.clean_fn, row.sender))
    /\ InputRange(convert_time(row.submit))
    /\ IsStr(row.receiver)
    /\ LET rs == RecipientsOf(row) IN \A k \in DOMAIN rs : valid_name(rs[k])

\* the events of row i are exactly one per recipient of the row, each with the
\* row's sender and converted timestamp
OnePerRecipient(org, i) ==
    LET row == input.df[i]
        rs == RecipientsOf(row)
        mine == EventsOf(org, i)
        s == Apply(input.ds.clean_fn, row.sender)
        t == convert_time(row.submit)
    IN  /\ Cardinality(mine) = Len(rs)
        /\ \A k \in DOMAIN rs : \E e \in mine :
              /\ Name(e.receiver) = rs[k]
              /\ Name(e.sender) = s
              /\ e.submit = t

\* C2, as amended: for a well-formed raw row with N recipients, multi-recipient
\* mode outputs exactly N events, one per recipient, all with the row's sender
\* and the same submit; single-recipient mode outputs exactly one such event
\* when N = 1 and cc and bcc are both absent (not a string, or "nan"), and no
\* event otherwise.
C2_EventsPerRow ==
    output.fn = "clean" =>
        LET org == Origin IN
        \A i \in DOMAIN input.df :
            LET row == input.df[i]
            IN  WellFormed(row) =>
                  IF ~input.single_senders
                  THEN OnePerRecipient(org, i)
                  ELSE IF /\ Len(RecipientsOf(row)) = 1
                          /\ no_copy(row.cc)
                          /\ no_copy(row.bcc)
                       THEN OnePerRecipient(org, i)
                       ELSE EventsOf(org, i) = {}

C2_Witness ==
    /\ output.fn = "clean"
    /\ ~input.single_senders
    /\ Len(input.df) = 2
    /\ WellFormed(input.df[2])
    /\ Len(RecipientsOf(input.df[2])) = 2
    /\ Cardinality(EventsOf(Origin, 2)) = 2
    /\ \A e \in EventsOf(Origin, 2) : Name(e.sender) = <<"A">>
    /\ {Name(e.receiver) : e \in EventsOf(Origin, 2)} = {<<"A">>, <<"B">>}

\* C2 as stated: in single-recipient mode a well-formed row gives exactly one
\* event when N = 1 and none when N # 1, whatever its cc and bcc.
C2_AsStated ==
    (output.fn = "clean" /\ input.single_senders) =>
        LET org == Origin IN
        \A i \in DOMAIN input.df :
            WellFormed(input.df[i]) =>
                Cardinality(EventsOf(org, i)) =
                    (IF Len(RecipientsOf(input.df[i])) = 1 THEN 1 ELSE 0)

HasCopy(x) == IsStr(x) /\ Lower(x) # nan

\* the raw table with cc and bcc emptied
WithoutCopies == [i \in DOMAIN input.df |->
                    [input.df[i] EXCEPT !.cc = NaN, !.bcc = NaN]]

\* C3: in single-recipient mode a raw row whose cc or bcc is a string other
\* than "nan" (in any case) produces no event; in multi-recipient mode the rows
\* that survive are those that survive with cc and bcc emptied.
C3_CopiesDropTheRow ==
    output.fn = "clean" =>
        LET org == Origin IN
        IF input.single_senders
        THEN \A i \in DOMAIN input.df :
                (HasCopy(input.df[i].cc) \/ HasCopy(input.df[i].bcc)) =>
                    EventsOf(org, i) = {}
        ELSE {e.idx : e \in Range(output.df)} =
                {x.idx : x \in Range(surviving(WithoutCopies, input.start,
                                               input.end, input.ds.clean_fn,
                                               input.ds.delimiter, FALSE))}

C3_Witness ==
    /\ output.fn = "clean"
    /\ input.single_senders
    /\ Len(input.df) = 2
    /\ WellFormed(input.df[1])
    /\ Len(RecipientsOf(input.df[1])) = 1
    /\ ~HasCopy(input.df[1].cc)
    /\ HasCopy(input.df[1].bcc)
    /\ EventsOf(Origin, 1) = {}
    /\ EventsOf(Origin, 2) # {}

\* C4: the codes of the surviving events are exactly 0 .. distinct_count - 1,
\* distinct_count being the number of distinct cleaned sender and receiver
\* strings among the surviving rows; user_key maps each event's codes back to
\* the cleaned sender and receiver of its row, and no string has two codes.
C4_CodesDenseAndInvertible ==
    (output.fn = "clean" /\ ~output.raised) =>
        LET kept == surviving(input.df, input.start, input.end,
                              input.ds.clean_fn, input.ds.delimiter,
                              input.single_senders)
            names == {kept[i].sender : i \in DOMAIN kept}
                        \cup {kept[i].receiver : i \in DOMAIN kept}
            codes == {e.sender : e \in Range(output.df)}
                        \cup {e.receiver : e \in Range(output.df)}
        IN  /\ codes = 0 .. (Cardinality(names) - 1)
            /\ Len(output.user_key) = Cardinality(names)
            /\ Len(output.df) = Len(kept)
            /\ \A i \in DOMAIN kept : \E e \in Range(output.df) :
                  /\ e.idx = kept[i].idx
                  /\ Name(e.sender) = kept[i].sender
                  /\ Name(e.receiver) = kept[i].receiver
            /\ \A a, b \in DOMAIN output.user_key :
                  output.user_key[a] = output.user_key[b] => a = b

C4_Witness ==
    /\ output.fn = "clean"
    /\ ~output.raised
    /\ Len(output.df) = 3
    /\ Len(output.user_key) = 2
    /\ \E e \in Range(output.df) : e.sender = e.receiver

----------------------------------------------------------------------------
(* The calls of senders() and receivers().                                  *)

CodedEvents == (0 .. NumCodes - 1) \X (0 .. NumCodes - 1) \X (0 .. MaxSubmit)

InitIndex ==
    /\ input \in {[fn |-> "index", df |-> df] :
                    df \in TablesUpTo(CodedEvents, MaxEvents)}
    /\ output = NotRun
    /\ AtRest

CallSenders ==
    /\ input.fn = "index"
    /\ output.fn = "none"
    /\ output' = [fn |-> "senders", v |-> senders(input.df)]
    /\ UNCHANGED <<input, process_vars>>

CallReceivers ==
    /\ input.fn = "index"
    /\ output.fn = "none"
    /\ output' = [fn |-> "receivers", v |-> receivers(input.df)]
    /\ UNCHANGED <<input, process_vars>>

NextIndex == CallSenders \/ CallReceivers

SpecIndex == InitIndex /\ [][NextIndex]_vars

\* e put into the submit-sorted s behind every event that is not later than e
RECURSIVE InsertBySubmit(_, _)
InsertBySubmit(s, e) ==
    IF s = <<>> THEN <<e>>
    ELSE IF s[Len(s)][3] <= e[3] THEN Append(s, e)
    ELSE Append(InsertBySubmit(SubSeq(s, 1, Len(s) - 1), e), s[Len(s)])

\* s sorted by ascending submit, events of equal submit in their order in s
RECURSIVE StableBySubmit(_)
StableBySubmit(s) ==
    IF s = <<>> THEN <<>>
    ELSE InsertBySubmit(StableBySubmit(SubSeq(s, 1, Len(s) - 1)), s[Len(s)])

\* index is the index of df by column key: one row per distinct value of the
\* column, holding the user's events stably sorted by submit
IsIndexOf(index, df, key, other) ==
    /\ {index[i].user : i \in DOMAIN index} = {df[n][key] : n \in DOMAIN df}
    /\ Len(index) = Cardinality({df[n][key] : n \in DOMAIN df})
    /\ \A i \in DOMAIN index :
          LET mine == SelectSeq(df, LAMBDA e : e[key] = index[i].user)
              ref == StableBySubmit(mine)
          IN  /\ index[i].others = Column(ref, other)
              /\ index[i].submits = Column(ref, 3)
              /\ Len(index[i].others) = Len(mine)
              /\ Len(index[i].submits) = Len(mine)
              /\ \A a, b \in DOMAIN index[i].submits :
                    a < b => index[i].submits[a] <= index[i].submits[b]

\* C5: senders() returns one row per distinct sender code, whose receivers and
\* submits are, position by position, those of the sender's events stably
\* sorted by ascending submit (equal submits keep their input order); and
\* receivers() does the same with sender and receiver exchanged.
C5_IndexIsStableSort ==
    /\ output.fn = "senders" => IsIndexOf(output.v, input.df, 1, 2)
    /\ output.fn = "receivers" => IsIndexOf(output.v, input.df, 2, 1)

C5_Witness ==
    /\ output.fn = "senders"
    /\ input.df = <<<<1, 1, 1>>, <<0, 1, 0>>, <<1, 0, 1>>>>
    /\ output.v = <<[user |-> 0, others |-> <<1>>, submits |-> <<0>>],
                    [user |-> 1, others |-> <<1, 0>>, submits |-> <<1, 1>>]>>

----------------------------------------------------------------------------
(* The calls of active_users().                                             *)

\* the index rows of users 1 .. Len(counts), user i with counts[i] messages
UsersWithCounts(counts) ==
    [i \in DOMAIN counts |->
        [user |-> i, submits |-> [k \in 1 .. counts[i] |-> k]]]

Percentiles == {0, 25, 50, 80, 100}

ExampleCounts == <<1, 2, 3, 4, 5, 100>>

InitActive ==
    /\ \E minp \in Percentiles, maxp \in Percentiles :
         \E counts \in UNION {[1 .. n -> 1 .. MaxCount] : n \in 1 .. MaxUsers}
                          \cup {ExampleCounts} :
            input = [fn |-> "active", df |-> UsersWithCounts(counts),
                     min_percentile |-> minp, max_percentile |-> maxp]
    /\ output = NotRun
    /\ AtRest

CallActiveUsers ==
    /\ input.fn = "active"
    /\ output.fn = "none"
    /\ output' = [fn |-> "active_users",
                  v |-> active_users(input.df, input.min_percentile,
                                     input.max_percentile)]
    /\ UNCHANGED <<input, process_vars>>

NextActive == CallActiveUsers

SpecActive == InitActive /\ [][NextActive]_vars

InputCounts == [i \in DOMAIN input.df |-> Len(input.df[i].submits)]

CountSet == Range(InputCounts)

\* the percentile at 0 is the least count, at 100 the greatest, and at 50 the
\* middle count, or the mean of the two middle counts
PercentileAnchors ==
    LET n == Len(InputCounts)
        sorted == StableBySubmit([i \in DOMAIN InputCounts |->
                                    <<0, 0, InputCounts[i]>>])
    IN  /\ \A c \in CountSet : 100 * c >= percentile100(InputCounts, 0)
        /\ percentile100(InputCounts, 0) \in {100 * c : c \in CountSet}
        /\ \A c \in CountSet : 100 * c <= percentile100(InputCounts, 100)
        /\ percentile100(InputCounts, 100) \in {100 * c : c \in CountSet}
        /\ percentile100(InputCounts, 50) =
              IF n % 2 = 1 THEN 100 * sorted[(n + 1) \div 2][3]
              ELSE 50 * (sorted[n \div 2][3] + sorted[n \div 2 + 1][3])

\* C8: active_users() returns exactly the users whose message count c has
\* P(min_percentile) <= c <= P(max_percentile), P being the linearly
\* interpolated percentile of all counts, in their input order; for the counts
\* [1,2,3,4,5,100] and percentiles 0 and 80 it keeps the first five users and
\* drops the one with 100 messages.
C8_PercentileBand ==
    output.fn = "active_users" =>
        LET lo == percentile100(InputCounts, input.min_percentile)
            hi == percentile100(InputCounts, input.max_percentile)
            kept == {output.v[i].user : i \in DOMAIN output.v}
        IN  /\ PercentileAnchors
            /\ kept = {i \in DOMAIN input.df :
                          lo <= 100 * InputCounts[i] /\ 100 * InputCounts[i] <= hi}
            /\ Len(output.v) = Cardinality(kept)
            /\ \A i \in DOMAIN output.v : output.v[i] = input.df[output.v[i].user]
            /\ \A a, b \in DOMAIN output.v :
                  a < b => output.v[a].user < output.v[b].user
            /\ (/\ InputCounts = ExampleCounts
                /\ input.min_percentile = 0
                /\ input.max_percentile = 80) => kept = 1 .. 5

C8_Witness ==
    /\ output.fn = "active_users"
    /\ InputCounts = ExampleCounts
    /\ input.min_percentile = 0
    /\ input.max_percentile = 80
    /\ [i \in DOMAIN output.v |-> Len(output.v[i].submits)] = <<1, 2, 3, 4, 5>>

----------------------------------------------------------------------------
(* process(): the pipeline over the files of one data directory, for one    *)
(* dataset and one mode. "clean", "users", "senders_processed" and          *)
(* "receivers_processed" stand for the files of the mode (with or without   *)
(* the _s suffix).                                                          *)

\* str(n) for n >= 0
RECURSIVE IntToStr(_)
IntToStr(n) ==
    IF n < 10 THEN <<Digits[n + 1]>>
    ELSE Append(IntToStr(n \div 10), Digits[(n % 10) + 1])

\* int(s) for a string of digits
RECURSIVE StrToInt(_)
StrToInt(s) ==
    IF Len(s) = 1 THEN DigitVal(s[1])
    ELSE 10 * StrToInt(SubSeq(s, 1, Len(s) - 1)) + DigitVal(s[Len(s)])

CleanHeader == <<"s", "e", "n", "d", "e", "r", ",",
                 "r", "e", "c", "e", "i", "v", "e", "r", ",",
                 "s", "u", "b", "m", "i", "t">>

\* clean_df.to_csv(clean_path, index=False): the header, then one line per event
to_csv(df) ==
    <<CleanHeader>> \o
    [i \in DOMAIN df |->
        IntToStr(df[i].sender) \o <<",">> \o IntToStr(df[i].receiver)
            \o <<",">> \o IntToStr(df[i].submit)]

\* pd.read_csv(clean_path): the lines under the header, labelled from 0
read_csv(lines) ==
    [i \in 1 .. Len(lines) - 1 |->
        LET cells == Split(lines[i + 1], ",")
        IN  [idx |-> i - 1,
             sender |-> StrToInt(cells[1]),
             receiver |-> StrToInt(cells[2]),
             submit |-> StrToInt(cells[3])]]

\* clean_df.to_numpy(): the matrix of line 250
to_numpy(df) == [i \in DOMAIN df |-> <<df[i].sender, df[i].receiver, df[i].submit>>]

Present(fs, f) == fs[f].kind # "absent"

File(kind, data) == [kind |-> kind, data |-> data]

\* The rows of the raw tables process() reads: pd.read_csv gives NaN for an
\* empty cell, so no field is the string "nan".
ProcessRows(ds) ==
    LET d == ds.delimiter
    IN  {RawRow(<<"A">>, r, t, c, NaN) :
            r \in {<<"B">>, <<"B", d, " ", "A">>},
            t \in {InRangeTime(ds), <<"1">>},
            c \in {NaN, <<"X">>}}

InitProcess ==
    /\ \E ds \in Datasets, single \in BOOLEAN :
         \E df \in TablesUpTo(ProcessRows(ds), MaxRows) :
            input = [fn |-> "process", remote |-> df, ds |-> ds,
                     start |-> dataset_range(ds)[1], end |-> dataset_range(ds)[2],
                     single_senders |-> single]
    /\ output = NotRun
    /\ AtRest

\* process() is called: it finds the directory as earlier runs left it
Begin ==
    /\ input.fn = "process"
    /\ pc = "idle"
    /\ pc' = "download"
    /\ pre' = files
    /\ written' = {}
    /\ finished' = FALSE
    /\ mem' = NoLocals
    /\ UNCHANGED <<input, output, files>>

\* lines 233-235 and 30-34: raw.zip is missing and is fetched
DownloadZip ==
    /\ pc = "download"
    /\ ~Present(files, "raw.zip")
    /\ files' = [files EXCEPT !["raw.zip"] = File("zip", input.remote)]
    /\ written' = written \cup {"raw.zip"}
    /\ pc' = "extract"
    /\ UNCHANGED <<input, output, mem, pre, finished>>

\* lines 36-37: the archive is unpacked into raw.csv
Extract ==
    /\ pc = "extract"
    /\ files' = [files EXCEPT !["raw.csv"] = File("table", files["raw.zip"].data)]
    /\ written' = written \cup {"raw.csv"}
    /\ pc' = "clean"
    /\ UNCHANGED <<input, output, mem, pre, finished>>

\* line 233: raw.zip exists, nothing is fetched
SkipDownload ==
    /\ pc = "download"
    /\ Present(files, "raw.zip")
    /\ pc' = "clean"
    /\ UNCHANGED <<input, output, files, mem, pre, written, finished>>

\* lines 238-246: the clean file is missing; raw.csv is read and cleaned and
\* the clean file written. A missing raw.csv, or clean() raising, ends the run.
MakeClean ==
    /\ pc = "clean"
    /\ ~Present(files, "clean")
    /\ IF ~Present(files, "raw.csv")
       THEN /\ pc' = "idle"
            /\ UNCHANGED <<files, mem, written>>
       ELSE \E o \in clean(files["raw.csv"].data, input.start, input.end,
                           input.ds.clean_fn, input.ds.delimiter,
                           input.single_senders) :
               IF o.raised
               THEN /\ pc' = "idle"
                    /\ UNCHANGED <<files, mem, written>>
               ELSE /\ files' = [files EXCEPT
                                    !["clean"] = File("csv", to_csv(o.df))]
                    /\ written' = written \cup {"clean"}
                    /\ mem' = [clean_df |-> o.df, user_key |-> o.user_key]
                    /\ pc' = "users"
    /\ UNCHANGED <<input, output, pre, finished>>

\* line 247: the lookup table is written next to the clean file
WriteUsers ==
    /\ pc = "users"
    /\ files' = [files EXCEPT !["users"] = File("users", mem.user_key)]
    /\ written' = written \cup {"users"}
    /\ pc' = "senders"
    /\ UNCHANGED <<input, output, mem, pre, finished>>

\* lines 248-249: the clean file exists and is read back
ReadClean ==
    /\ pc = "clean"
    /\ Present(files, "clean")
    /\ mem' = [clean_df |-> read_csv(files["clean"].data), user_key |-> <<>>]
    /\ pc' = "senders"
    /\ UNCHANGED <<input, output, files, pre, written, finished>>

\* the senders stage without the test of line 252
WriteSendersAlways ==
    /\ pc = "senders"
    /\ files' = [files EXCEPT !["senders_processed"] =
                    File("json", senders(to_numpy(mem.clean_df)))]
    /\ written' = written \cup {"senders_processed"}
    /\ pc' = "receivers"
    /\ UNCHANGED <<input, output, mem, pre, finished>>

\* lines 252-256: the senders index is missing and is written
WriteSenders ==
    /\ pc = "senders"
    /\ ~Present(files, "senders_processed")
    /\ files' = [files EXCEPT !["senders_processed"] =
                    File("json", senders(to_numpy(mem.clean_df)))]
    /\ written' = written \cup {"senders_processed"}
    /\ pc' = "receivers"
    /\ UNCHANGED <<input, output, mem, pre, finished>>

\* line 252: the senders index exists
SkipSenders ==
    /\ pc = "senders"
    /\ Present(files, "senders_processed")
    /\ pc' = "receivers"
    /\ UNCHANGED <<input, output, files, mem, pre, written, finished>>

\* lines 258-262: the receivers index is missing and is written; process()
\* returns
WriteReceivers ==
    /\ pc = "receivers"
    /\ ~Present(files, "receivers_processed")
    /\ files' = [files EXCEPT !["receivers_processed"] =
                    File("json", receivers(to_numpy(mem.clean_df)))]
    /\ written' = written \cup {"receivers_processed"}
    /\ pc' = "idle"
    /\ finished' = TRUE
    /\ UNCHANGED <<input, output, mem, pre>>

\* line 258: the receivers index exists; process() returns
SkipReceivers ==
    /\ pc = "receivers"
    /\ Present(files, "receivers_processed")
    /\ pc' = "idle"
    /\ finished' = TRUE
    /\ UNCHANGED <<input, output, files, mem, pre, written>>

\* the run is stopped between two of its steps (a kill, a failed download):
\* the files written so far stay
Interrupt ==
    /\ pc \notin {"idle"}
    /\ pc' = "idle"
    /\ UNCHANGED <<input, output, files, mem, pre, written, finished>>

NextProcess ==
    \/ Begin
    \/ DownloadZip
    \/ Extract
    \/ SkipDownload
    \/ MakeClean
    \/ WriteUsers
    \/ ReadClean
    \/ WriteSenders
    \/ SkipSenders
    \/ WriteReceivers
    \/ SkipReceivers
    \/ Interrupt

SpecProcess == InitProcess /\ [][NextProcess]_vars

Targets == {"raw.zip", "clean", "senders_processed", "receivers_processed"}

StrictlyIncreasing(s) == \A a, b \in DOMAIN s : a < b => s[a] < s[b]

\* C6: in the per-user indexes the pipeline writes, the submits of every user
\* are strictly increasing (equal timestamps having been moved apart by one
\* unit), so no user has two events with the same timestamp.
C6_SubmitsStrictlyIncreasing ==
    \A f \in {"senders_processed", "receivers_processed"} :
        Present(files, f) =>
            \A i \in DOMAIN files[f].data :
                StrictlyIncreasing(files[f].data[i].submits)

\* the events of the clean file f, as the matrix the indexing stages get
EventsIn(f) == to_numpy(read_csv(f.data))

\* C7: a stage whose target file (raw.zip, the clean file, either processed
\* file) existed when process() was called writes nothing and leaves the file
\* as it was (nor is raw.csv unpacked again, nor the users table rewritten); an
\* existing clean file is what the indexes written by the run are computed
\* from; a run that returns leaves all four target files, and a run that finds
\* all four writes no file.
C7_ExistingFilesAreSkipped ==
    /\ \A f \in Targets :
          Present(pre, f) => (f \notin written /\ files[f] = pre[f])
    /\ Present(pre, "raw.zip") => "raw.csv" \notin written
    /\ Present(pre, "clean") =>
          /\ "users" \notin written
          /\ "senders_processed" \in written =>
                files["senders_processed"].data = senders(EventsIn(pre["clean"]))
          /\ "receivers_processed" \in written =>
                files["receivers_processed"].data =
                    receivers(EventsIn(pre["clean"]))
    /\ finished => \A f \in Targets : Present(files, f)
    /\ (\A f \in Targets : Present(pre, f)) => written = {}

C7_Witness ==
    /\ finished
    /\ pc = "idle"
    /\ Present(pre, "raw.zip")
    /\ Present(pre, "clean")
    /\ Len(pre["clean"].data) = 4
    /\ Present(pre, "senders_processed")
    /\ ~Present(pre, "receivers_processed")
    /\ written = {"receivers_processed"}
    /\ Len(files["receivers_processed"].data) = 2

\* C10: whatever earlier runs of process() left behind, interrupted ones
\* included, a run that returns leaves the clean file, the users table and both
\* processed files, the users table covering every code of the clean file and
\* both indexes holding exactly the clean file's events.
C10_ArtifactsCompleteAfterRun ==
    (finished /\ pc = "idle") =>
        /\ \A f \in {"clean", "users", "senders_processed",
                     "receivers_processed"} : Present(files, f)
        /\ LET events == EventsIn(files["clean"])
           IN  /\ \A n \in DOMAIN events :
                     /\ events[n][1] < Len(files["users"].data)
                     /\ events[n][2] < Len(files["users"].data)
               /\ IsIndexOf(files["senders_processed"].data, events, 1, 2)
               /\ IsIndexOf(files["receivers_processed"].data, events, 2, 1)

----------------------------------------------------------------------------
(* The whole model: a behaviour is a call of one of the functions, or a     *)
(* sequence of runs of process().                                           *)

Init == InitIdentity \/ InitClean \/ InitIndex \/ InitActive \/ InitProcess

Next == NextIdentity \/ NextClean \/ NextIndex \/ NextActive \/ NextProcess

Spec == Init /\ [][Next]_vars

====
